---- MODULE Spec2Model ----
(***************************************************************************)
(* Streaming-and-persistence coordinator of the personal finance agent:    *)
(* stream_agent_response (api/v1/utils/helpers.py) together with the       *)
(* conversation store (conversation_service.py) and the message ledger     *)
(* (chat_message_service.py).                                              *)
(*                                                                         *)
(* Python strings are sequences of one-character strings.  A store         *)
(* operation (one db.scalar / db.commit round trip) is atomic: it either   *)
(* raises and leaves the rows as they were, or takes effect and returns.   *)
(***************************************************************************)
EXTENDS Integers, Sequences, FiniteSets, TLC

(* ------------------------------ bounds -------------------------------- *)
\* engine events consumed, over all requests
MaxEvents == 2
\* store operations that raise, over all requests
MaxFaults == 2
\* conversation rows in the runs that call the services directly
MaxRows == 2

(* ------------------------------ values -------------------------------- *)
\* Python None for an Optional[str]; None for an Optional id is NoId
None == <<"None">>
NoId == 0

Users == {"u1", "u2"}
\* thread ids a client can make up itself, and the uuid4 values the server draws
ClientThreads == {"t"}
UuidPool == <<"g1", "g2", "g3", "g4">>
\* str(uuid.uuid4()): the n-th draw; draws never repeat
Uuid(n) == UuidPool[n]
\* request bodies (AIRequest.message has min_length 1)
UserMessages == {<<"h", "i">>}

NewConversation == <<"N","e","w"," ","C","o","n","v","e","r","s","a","t","i","o","n">>

Whitespace == {" "}

RECURSIVE lstrip(_)
lstrip(s) == IF s # <<>> /\ Head(s) \in Whitespace THEN lstrip(Tail(s)) ELSE s

RECURSIVE rstrip(_)
rstrip(s) ==
    IF s # <<>> /\ s[Len(s)] \in Whitespace THEN rstrip(SubSeq(s, 1, Len(s) - 1)) ELSE s

\* str.strip()
strip(s) == rstrip(lstrip(s))

\* Python truthiness of an Optional[str]
Truthy(s) == s # None /\ s # <<>>

RECURSIVE Concat(_)
\* "".join(parts)
Concat(parts) == IF parts = <<>> THEN <<>> ELSE Head(parts) \o Concat(Tail(parts))

IsPrefix(s, t) == Len(s) <= Len(t) /\ SubSeq(t, 1, Len(s)) = s

\* s.startswith(p), s.endswith(p)
startswith(s, p) == IsPrefix(p, s)
endswith(s, p) == Len(p) <= Len(s) /\ SubSeq(s, Len(s) - Len(p) + 1, Len(s)) = p

\* str.lower(), on the letters the model's strings use
lower(s) ==
    [i \in 1..Len(s) |->
        CASE s[i] = "T" -> "t" [] s[i] = "N" -> "n" [] s[i] = "C" -> "c" [] OTHER -> s[i]]

RECURSIVE split(_)
\* str.split(): the maximal runs of non-whitespace characters
split(s) ==
    LET t == lstrip(s)
        \* the length of the first word: up to the first whitespace character
        Gaps == {i \in 1..Len(t) : t[i] \in Whitespace}
        WordLen == IF Gaps = {} THEN Len(t)
                   ELSE (CHOOSE i \in Gaps : \A j \in Gaps : i <= j) - 1
    IN IF t = <<>> THEN <<>>
       ELSE <<SubSeq(t, 1, WordLen)>> \o split(SubSeq(t, WordLen + 1, Len(t)))

RECURSIVE join(_)
\* " ".join(words)
join(words) ==
    IF words = <<>> THEN <<>>
    ELSE IF Len(words) = 1 THEN words[1]
    ELSE words[1] \o <<" ">> \o join(Tail(words))

(* --------------------------- title synthesis -------------------------- *)
TitleLimit == 200
TitleKeep == 197
LabelLen == 6
FallbackWords == 6

\* the reply of model.ainvoke: a text, or the call raises
ModelRaises == <<"raise">>
TitleReplies == {<<"T">>, ModelRaises}

\* mutant: the fallback is the fixed default title
FallbackTitleDefault(user_message) == NewConversation

\* helpers.py 66-67 and 443-444: the first words of the user message
FallbackTitle(user_message) ==
    LET all == split(user_message)
        words == SubSeq(all, 1, IF Len(all) < FallbackWords THEN Len(all) ELSE FallbackWords)
    IN IF words # <<>> THEN join(words) ELSE NewConversation

generate_conversation_title(user_message, reply) ==
    IF reply = ModelRaises THEN FallbackTitle(user_message)
    ELSE LET t0 == strip(reply)
             t1 == IF startswith(t0, <<"\"">>) /\ endswith(t0, <<"\"">>)
                   THEN SubSeq(t0, 2, Len(t0) - 1) ELSE t0
             t2 == IF startswith(t1, <<"'">>) /\ endswith(t1, <<"'">>)
                   THEN SubSeq(t1, 2, Len(t1) - 1) ELSE t1
             t3 == IF startswith(lower(t2), <<"t", "i", "t", "l", "e", ":">>)
                   THEN strip(SubSeq(t2, LabelLen + 1, Len(t2))) ELSE t2
             t4 == IF Len(t3) > TitleLimit
                   THEN SubSeq(t3, 1, TitleKeep) \o <<".", ".", ".">> ELSE t3
         IN IF t4 # <<>> THEN t4 ELSE NewConversation

(* --------------------------- event multiplexer ------------------------ *)
TOOL_NAMES ==
    <<"categorize_transaction", "create_budget_rule", "save_user_profile",
      "get_user_transactions", "get_user_budget_rules", "get_spending_summary">>

\* engine content events: message chunks of the "messages" stream mode
Chunks ==
    {[cls |-> "AIMessageChunk", content |-> <<"a">>, tool_calls |-> FALSE],
     [cls |-> "AIMessageChunk", content |-> <<" ">>, tool_calls |-> FALSE],
     [cls |-> "AIMessageChunk", content |-> <<>>, tool_calls |-> TRUE],
     [cls |-> "ToolMessage", content |-> <<"r">>, tool_calls |-> FALSE]}

\* engine step events of the "updates" stream mode: the node that ran, and as its
\* data the names of the tool calls its messages carry.  create_agent (ai/agent.py
\* 297-308) names its nodes "model" and "tools"; a graph may also name a node after
\* its tool.  "web_search" stands for a tool that is not in the registry.
Steps ==
    {[node_name |-> "categorize_transaction", node_data |-> <<>>],
     [node_name |-> "model", node_data |-> <<"get_spending_summary">>],
     [node_name |-> "model", node_data |-> <<"web_search">>]}

\* engine custom events
Payloads == {"p"}

\* extract_text_from_message: the text, or None
extract_text_from_message(message) ==
    IF message.tool_calls THEN None
    ELSE IF message.cls \in {"ToolMessage", "FunctionMessage"} THEN None
    ELSE IF strip(message.content) # <<>> THEN message.content ELSE None

action_map(tool_name) ==
    CASE tool_name = "categorize_transaction" -> "trying to categorize transaction"
      [] tool_name = "create_budget_rule" -> "creating budget rule"
      [] tool_name = "save_user_profile" -> "saving user profile"
      [] OTHER -> "processing"

InRegistry(tool_name) == \E i \in DOMAIN TOOL_NAMES : TOOL_NAMES[i] = tool_name

\* the first registered tool among the tool calls of node_data["messages"], or ""
FirstRegistered(node_data) ==
    IF \E k \in DOMAIN node_data : InRegistry(node_data[k])
    THEN node_data[CHOOSE k \in DOMAIN node_data :
                        /\ InRegistry(node_data[k])
                        /\ \A j \in 1..(k - 1) : ~InRegistry(node_data[j])]
    ELSE ""

\* extract_tool_info: "<tool>:: <label>" as a pair, or None.  The third test of
\* the code (lines 216-227) looks for "tools" or a tool name inside the node name;
\* a node name of Steps contains a tool name only by being one, and then the
\* first test has answered, so that test ends in None.
extract_tool_info(node_name, node_data) ==
    IF InRegistry(node_name) THEN <<node_name, action_map(node_name)>>
    ELSE IF FirstRegistered(node_data) # ""
    THEN <<FirstRegistered(node_data), action_map(FirstRegistered(node_data))>>
    ELSE None

(* ------------------------------- state -------------------------------- *)
VARIABLES
    conversations,   \* table conversations: row id = index
    messages,        \* table chat_messages: row id = index
    req,             \* request id -> frame of its stream_agent_response generator
    user_context,    \* ai.tools module globals _user_context / _db_session
    uuids,           \* uuid4 values drawn so far
    started,         \* requests started so far
    consumed,        \* engine events consumed so far
    faults,          \* store operations that raised so far
    last_call,       \* the latest direct call of a service method, with its result
    blacklisted_tokens,  \* table blacklisted_tokens: row id = index
    now              \* datetime.now(timezone.utc), in hours

\* the state of the token services
auth_vars == <<blacklisted_tokens, now>>

vars ==
    <<conversations, messages, req, user_context, uuids, started, consumed, faults,
      last_call, auth_vars>>

\* the requests of a run, started one after the other
Requests == {1, 2}

\* ai.tools before any set_user_context: _user_context = {}, _db_session = None
NoContext == [user_id |-> "", db |-> NoId]

\* a generator that has not been called yet, or whose frame has been released.
\* db is the state of the session of line 277; exc is the BaseException that
\* unwound the frame; feed lists the engine events the loop body has handled to
\* its end; tool_context is what the latest tool run of the feed read from ai.tools
NoFrame ==
    [pc |-> "idle", message |-> <<>>, thread_id |-> "", user_id |-> "",
     user_message_id |-> NoId, assistant_message_id |-> NoId,
     assistant_content |-> <<>>, tool_calls |-> <<>>, final_thread_id |-> "",
     conversation |-> NoId, conversation_id |-> NoId,
     is_new_conversation |-> FALSE, e |-> "", events |-> <<>>, deltas |-> <<>>,
     db |-> "none", exc |-> "", feed |-> <<>>, tool_context |-> NoContext]

Init ==
    /\ conversations = <<>>
    /\ messages = <<>>
    /\ req = [r \in Requests |-> NoFrame]
    /\ user_context = NoContext
    /\ uuids = 0
    /\ started = 0
    /\ consumed = 0
    /\ faults = 0
    /\ last_call = [op |-> "none"]
    /\ blacklisted_tokens = <<>>
    /\ now = 0

\* outcomes of one store round trip: FALSE = returns, TRUE = raises
Raises == IF faults < MaxFaults THEN {FALSE, TRUE} ELSE {FALSE}

Fault(raised) == faults' = IF raised THEN faults + 1 ELSE faults

Active(r) == req[r].pc \notin {"idle", "closed"}

\* thread ids a client knows: made up, or reported by an earlier terminal event
KnownThreads == {""} \cup ClientThreads \cup {Uuid(n) : n \in 1..uuids}

(* ------------------------- conversation store ------------------------- *)
\* mutant: the lookup filters on a thread id nobody has
get_conversation_by_thread_id_miss(user_id, thread_id) == NoId

\* ConversationService.get_conversation_by_thread_id: row id or NoId
get_conversation_by_thread_id(user_id, thread_id) ==
    LET hits == {c \in DOMAIN conversations :
                    /\ conversations[c].user_id = user_id
                    /\ conversations[c].thread_id = thread_id}
    IN IF hits = {} THEN NoId ELSE CHOOSE c \in hits : \A d \in hits : c <= d

\* ConversationService.get_conversation_by_id: row id or NoId
get_conversation_by_id(conversation_id, user_id) ==
    IF /\ conversation_id \in DOMAIN conversations
       /\ conversations[conversation_id].user_id = user_id
    THEN conversation_id ELSE NoId

\* the unique index on conversations.thread_id rejects the insert
ThreadIdTaken(thread_id) ==
    \E c \in DOMAIN conversations : conversations[c].thread_id = thread_id

\* ConversationService.create_conversation: the table after the insert
create_conversation(user_id, thread_id, title) ==
    Append(conversations, [user_id |-> user_id, thread_id |-> thread_id, title |-> title])

\* mutant: the setter keeps a title that is already there
update_conversation_title_guarded(conversation_id, title) ==
    IF conversation_id \in DOMAIN conversations
       /\ ~Truthy(conversations[conversation_id].title)
    THEN [conversations EXCEPT ![conversation_id].title = title]
    ELSE conversations

\* ConversationService.update_conversation_title: the table after the update
update_conversation_title(conversation_id, title) ==
    IF conversation_id \in DOMAIN conversations
    THEN [conversations EXCEPT ![conversation_id].title = title]
    ELSE conversations

(* --------------------------- message ledger --------------------------- *)
\* JSONB metadata is a function from its keys; None and {} are both the empty one
\* (the code only ever tests the truthiness of a metadata value)
NoMetadata == [k \in {} |-> <<>>]

\* ChatMessageService.create_message: the table after the insert
create_message(conversation_id, role, content, parent_message_id, status, finish_reason, latency_ms, message_metadata) ==
    Append(messages,
           [conversation_id |-> conversation_id, parent_message_id |-> parent_message_id,
            role |-> role, content |-> content, status |-> status,
            finish_reason |-> finish_reason, latency_ms |-> latency_ms,
            message_metadata |-> message_metadata])

\* {**old, **new}
MergeMetadata(old, new) ==
    [k \in DOMAIN old \cup DOMAIN new |-> IF k \in DOMAIN new THEN new[k] ELSE old[k]]

\* mutant: the content is assigned without the `is not None` test
update_message_clobber(message_id, content, status, finish_reason, latency_ms, message_metadata) ==
    IF message_id \notin DOMAIN messages THEN messages
    ELSE [messages EXCEPT
            ![message_id].content = IF content # None THEN content ELSE <<>>,
            ![message_id].status = IF status # "None" THEN status ELSE @,
            ![message_id].finish_reason = IF finish_reason # "None" THEN finish_reason ELSE @]

\* mutant: the metadata given replaces the metadata of the row
update_message_replace(message_id, content, status, finish_reason, latency_ms, message_metadata) ==
    IF message_id \notin DOMAIN messages THEN messages
    ELSE [messages EXCEPT
            ![message_id].content = IF content # None THEN content ELSE @,
            ![message_id].status = IF status # "None" THEN status ELSE @,
            ![message_id].finish_reason = IF finish_reason # "None" THEN finish_reason ELSE @,
            ![message_id].latency_ms = IF latency_ms # -1 THEN latency_ms ELSE @,
            ![message_id].message_metadata = message_metadata]

\* mutant: the update goes to the assistant row that was inserted last
update_message_latest(message_id, content, status, finish_reason, latency_ms, message_metadata) ==
    IF message_id \notin DOMAIN messages THEN messages
    ELSE LET rows == {i \in DOMAIN messages : messages[i].role = "assistant"}
             latest == IF rows = {} THEN message_id
                       ELSE CHOOSE i \in rows : \A j \in rows : j <= i
             m == messages[latest]
         IN [messages EXCEPT ![latest] =
                [m EXCEPT
                    !.content = IF content # None THEN content ELSE @,
                    !.status = IF status # "None" THEN status ELSE @,
                    !.finish_reason = IF finish_reason # "None" THEN finish_reason ELSE @,
                    !.latency_ms = IF latency_ms # -1 THEN latency_ms ELSE @,
                    !.message_metadata =
                        IF DOMAIN message_metadata = {} THEN @
                        ELSE IF DOMAIN @ # {} THEN MergeMetadata(@, message_metadata)
                        ELSE message_metadata]]

\* ChatMessageService.update_message: the table after the update; a field given as
\* None is left alone (None is "None" for an enum and -1 for an int)
update_message(message_id, content, status, finish_reason, latency_ms, message_metadata) ==
    IF message_id \notin DOMAIN messages THEN messages
    ELSE LET m == messages[message_id]
         IN [messages EXCEPT ![message_id] =
                [m EXCEPT
                    !.content = IF content # None THEN content ELSE @,
                    !.status = IF status # "None" THEN status ELSE @,
                    !.finish_reason = IF finish_reason # "None" THEN finish_reason ELSE @,
                    !.latency_ms = IF latency_ms # -1 THEN latency_ms ELSE @,
                    !.message_metadata =
                        IF DOMAIN message_metadata = {} THEN @
                        ELSE IF DOMAIN @ # {} THEN MergeMetadata(@, message_metadata)
                        ELSE message_metadata]]

\* a conversation row with this id and this owner exists
OwnedBy(conversation_id, user_id) ==
    /\ conversation_id \in DOMAIN conversations
    /\ conversations[conversation_id].user_id = user_id

\* mutant: the select has no join on the owner of the conversation
get_conversation_messages_unscoped(conversation_id, user_id) ==
    SelectSeq(messages, LAMBDA m : m.conversation_id = conversation_id)

\* ChatMessageService.get_conversation_messages: the rows of the conversation in
\* the order of their creation, through the join on Conversation.user_id
get_conversation_messages(conversation_id, user_id) ==
    SelectSeq(messages, LAMBDA m : /\ m.conversation_id = conversation_id
                                   /\ OwnedBy(conversation_id, user_id))

(* ------------------------- stream_agent_response ---------------------- *)
Goto(r, label) == [req EXCEPT ![r].pc = label]

\* mutant: the handler does not catch the exception, only `finally` runs
RaiseUncaught(r, e) == [req EXCEPT ![r].pc = "finally", ![r].e = e]

\* an exception leaves the try block: control enters `except Exception as e`
Raise(r, e) == [req EXCEPT ![r].pc = "except", ![r].e = e]

\* mutant: the event is put in front of the ones already emitted
YieldFirst(frame, event) == [frame EXCEPT !.events = <<event>> \o @]

\* format_sse_event + yield: one more client event on the wire
Yield(frame, event) == [frame EXCEPT !.events = Append(@, event)]

\* mutant: a fixed default instead of a fresh uuid
FinalThreadIdDefault(thread_id, n) == IF thread_id # "" THEN thread_id ELSE Uuid(1)

\* line 283: thread_id or str(uuid.uuid4()), n being the number of the draw
FinalThreadId(thread_id, n) == IF thread_id # "" THEN thread_id ELSE Uuid(n)

\* mutant: assistant_content = chunk_text
AccumulateDelta(assistant_content, chunk_text) == chunk_text

\* line 339: assistant_content += chunk_text
Accumulate(assistant_content, chunk_text) == assistant_content \o chunk_text

\* mutant: every token inserts a row
NeedsAssistantMessageAlways(frame) == TRUE

\* line 342: assistant_message_id is None
NeedsAssistantMessage(frame) == frame.assistant_message_id = NoId

\* mutant: any request that produced content titles the conversation
NeedsTitleAnyRequest(frame) == frame.assistant_content # <<>>

\* mutant: a request with content also titles a conversation it found untitled
NeedsTitleWhileUntitled(frame) ==
    /\ frame.assistant_content # <<>>
    /\ \/ frame.is_new_conversation
       \/ /\ frame.conversation_id \in DOMAIN conversations
          /\ ~Truthy(conversations[frame.conversation_id].title)

\* line 428: is_new_conversation and assistant_content
NeedsTitle(frame) == frame.is_new_conversation /\ frame.assistant_content # <<>>

\* the generator is called: lines 277-286.  Under Spec a request is started once the
\* one before it has ended.
Start(r, message, thread_id, user_id) ==
    /\ req[r].pc = "idle"
    /\ r = started + 1
    /\ \A q \in Requests : ~Active(q)
    /\ started' = r
    /\ LET fresh == thread_id = ""
       IN /\ uuids' = IF fresh THEN uuids + 1 ELSE uuids
          /\ req' = [req EXCEPT ![r] =
                [NoFrame EXCEPT
                    !.pc = "lookup", !.message = message, !.thread_id = thread_id,
                    !.user_id = user_id, !.db = "open",
                    !.final_thread_id = FinalThreadId(thread_id, uuids + 1)]]
    /\ UNCHANGED <<conversations, messages, user_context, consumed, faults, last_call, auth_vars>>

\* lines 290-293
LookupConversation(r) ==
    /\ req[r].pc = "lookup"
    /\ \E raised \in (IF req[r].thread_id # "" THEN Raises ELSE {FALSE}) :
        /\ Fault(raised)
        /\ req' =
            IF raised THEN Raise(r, "store")
            ELSE [req EXCEPT
                    ![r].conversation =
                        IF req[r].thread_id # ""
                        THEN get_conversation_by_thread_id(req[r].user_id, req[r].thread_id)
                        ELSE NoId,
                    ![r].pc = "create"]
    /\ UNCHANGED <<conversations, messages, user_context, uuids, started, consumed,
                   last_call, auth_vars>>

\* lines 295-306
CreateConversation(r) ==
    /\ req[r].pc = "create"
    /\ IF req[r].conversation # NoId
       THEN /\ req' = [req EXCEPT ![r].conversation_id = req[r].conversation,
                                  ![r].pc = "save_user"]
            /\ UNCHANGED <<conversations, faults>>
       ELSE \E raised \in (IF ThreadIdTaken(req[r].final_thread_id) THEN {TRUE} ELSE Raises) :
            /\ Fault(raised /\ ~ThreadIdTaken(req[r].final_thread_id))
            /\ IF raised
               THEN /\ req' = [Raise(r, IF ThreadIdTaken(req[r].final_thread_id)
                                        THEN "integrity" ELSE "store")
                                  EXCEPT ![r].is_new_conversation = TRUE]
                    /\ UNCHANGED conversations
               ELSE /\ conversations' =
                        create_conversation(req[r].user_id, req[r].final_thread_id, None)
                    /\ req' = [req EXCEPT ![r].is_new_conversation = TRUE,
                                          ![r].conversation = Len(conversations) + 1,
                                          ![r].conversation_id = Len(conversations) + 1,
                                          ![r].pc = "save_user"]
    /\ UNCHANGED <<messages, user_context, uuids, started, consumed, last_call, auth_vars>>

\* mutant: the feed is opened without the user turn having been written
SaveUserMessageSkipped(r) ==
    /\ req[r].pc = "save_user"
    /\ req' = Goto(r, "stream")
    /\ user_context' = [user_id |-> req[r].user_id, db |-> r]
    /\ UNCHANGED <<conversations, messages, uuids, started, consumed, faults, last_call, auth_vars>>

\* lines 308-322
SaveUserMessage(r) ==
    /\ req[r].pc = "save_user"
    /\ \E raised \in Raises :
        /\ Fault(raised)
        /\ IF raised
           THEN /\ req' = Raise(r, "store")
                /\ UNCHANGED <<messages, user_context>>
           ELSE /\ messages' = create_message(req[r].conversation_id, "user", req[r].message,
                                              NoId, "completed", "None", -1, NoMetadata)
                /\ req' = [req EXCEPT ![r].user_message_id = Len(messages) + 1,
                                      ![r].pc = "stream"]
                /\ user_context' = [user_id |-> req[r].user_id, db |-> r]
    /\ UNCHANGED <<conversations, uuids, started, consumed, last_call, auth_vars>>

\* mutant: a token is only added to the buffer and sent on; the ledger is written
\* when the feed has ended
TokenEventBuffered(r, message_chunk) ==
    /\ req[r].pc = "stream"
    /\ consumed < MaxEvents
    /\ consumed' = consumed + 1
    /\ LET chunk_text == extract_text_from_message(message_chunk)
           text == [type |-> "text", content |-> message_chunk.content]
           handled == [mode |-> "messages", data |-> message_chunk]
       IN req' =
            IF message_chunk.content = <<>>
            THEN [req EXCEPT ![r].feed = Append(@, handled)]
            ELSE IF ~Truthy(chunk_text)
            THEN [req EXCEPT ![r] = Yield([@ EXCEPT !.feed = Append(@, handled)], text)]
            ELSE [req EXCEPT ![r] =
                    Yield([@ EXCEPT !.assistant_content = Accumulate(@, chunk_text),
                                    !.deltas = Append(@, chunk_text),
                                    !.feed = Append(@, handled)], text)]
    /\ UNCHANGED <<conversations, messages, user_context, uuids, started, faults,
                   last_call, auth_vars>>

\* one "messages" event of the feed: lines 333-364
TokenEvent(r, message_chunk) ==
    /\ req[r].pc = "stream"
    /\ consumed < MaxEvents
    /\ consumed' = consumed + 1
    /\ LET chunk_text == extract_text_from_message(message_chunk)
           assistant_content == Accumulate(req[r].assistant_content, chunk_text)
           text == [type |-> "text", content |-> message_chunk.content]
           handled == [mode |-> "messages", data |-> message_chunk]
       IN IF message_chunk.content = <<>>
          THEN /\ req' = [req EXCEPT ![r].feed = Append(@, handled)]
               /\ UNCHANGED <<messages, faults>>
          ELSE IF ~Truthy(chunk_text)
          THEN /\ req' = [req EXCEPT ![r] = Yield([@ EXCEPT !.feed = Append(@, handled)],
                                                  text)]
               /\ UNCHANGED <<messages, faults>>
          ELSE \E raised \in Raises :
               /\ Fault(raised)
               /\ IF raised
                  THEN /\ req' = [Raise(r, "store")
                                    EXCEPT ![r].assistant_content = assistant_content]
                       /\ UNCHANGED messages
                  ELSE IF NeedsAssistantMessage(req[r])
                  THEN /\ messages' =
                            create_message(req[r].conversation_id, "assistant",
                                           assistant_content, req[r].user_message_id,
                                           "pending", "None", -1, NoMetadata)
                       /\ req' = [req EXCEPT ![r] =
                            Yield([@ EXCEPT !.assistant_content = assistant_content,
                                            !.assistant_message_id = Len(messages) + 1,
                                            !.deltas = Append(@, chunk_text),
                                            !.feed = Append(@, handled)], text)]
                  ELSE /\ messages' =
                            update_message(req[r].assistant_message_id, assistant_content,
                                           "None", "None", -1, NoMetadata)
                       /\ req' = [req EXCEPT ![r] =
                            Yield([@ EXCEPT !.assistant_content = assistant_content,
                                            !.deltas = Append(@, chunk_text),
                                            !.feed = Append(@, handled)], text)]
    /\ UNCHANGED <<conversations, user_context, uuids, started, last_call, auth_vars>>

\* mutant: the tool is handed the context of the request whose feed runs it
ToolRunScoped(r, node_name) ==
    IF InRegistry(node_name)
    THEN [req[r] EXCEPT !.tool_context = [user_id |-> req[r].user_id, db |-> r]]
    ELSE req[r]

\* ai/tools.py lines 78-82: the step of a tool node is delivered once the tool has
\* run; the tool took its user id and its session from the module globals
ToolRun(r, node_name) ==
    IF InRegistry(node_name)
    THEN [req[r] EXCEPT !.tool_context = user_context]
    ELSE req[r]

\* one "updates" event of the feed: lines 367-378
StepEvent(r, node_name, node_data) ==
    /\ req[r].pc = "stream"
    /\ consumed < MaxEvents
    /\ consumed' = consumed + 1
    /\ LET tool_info == extract_tool_info(node_name, node_data)
           handled == [mode |-> "updates",
                       data |-> [node_name |-> node_name, node_data |-> node_data]]
           ran == ToolRun(r, node_name)
       IN req' =
            IF Truthy(tool_info)
            THEN [req EXCEPT ![r] =
                    Yield([ran EXCEPT !.tool_calls =
                                Append(@, [node |-> node_name, info |-> tool_info]),
                                      !.feed = Append(@, handled)],
                          [type |-> "tool_update", content |-> tool_info])]
            ELSE [req EXCEPT ![r] = [ran EXCEPT !.feed = Append(@, handled)]]
    /\ UNCHANGED <<conversations, messages, user_context, uuids, started, faults,
                   last_call, auth_vars>>

\* one "custom" event of the feed: lines 381-382
CustomEvent(r, data) ==
    /\ req[r].pc = "stream"
    /\ consumed < MaxEvents
    /\ consumed' = consumed + 1
    /\ req' = [req EXCEPT ![r] =
                Yield([@ EXCEPT !.feed = Append(@, [mode |-> "custom", data |-> data])],
                      [type |-> "custom", content |-> data])]
    /\ UNCHANGED <<conversations, messages, user_context, uuids, started, faults,
                   last_call, auth_vars>>

\* agent.astream raises instead of delivering the next event
FeedRaises(r) ==
    /\ req[r].pc = "stream"
    /\ req' = Raise(r, "engine")
    /\ UNCHANGED <<conversations, messages, user_context, uuids, started, consumed, faults,
                   last_call, auth_vars>>

\* agent.astream is exhausted: the loop of line 324 ends
FeedEnds(r) ==
    /\ req[r].pc = "stream"
    /\ req' = Goto(r, "finalize")
    /\ UNCHANGED <<conversations, messages, user_context, uuids, started, consumed, faults,
                   last_call, auth_vars>>

\* int((time.time() - start_time) * 1000)
Latencies == {5}

\* mutant: the list is written whether or not it has an entry
FinalMetadataAlways(tool_calls) == [k \in {"tool_calls"} |-> tool_calls]

\* {"tool_calls": tool_calls} if tool_calls else None
FinalMetadata(tool_calls) ==
    IF tool_calls # <<>> THEN [k \in {"tool_calls"} |-> tool_calls] ELSE NoMetadata

\* lines 384-425
Finalize(r) ==
    /\ req[r].pc = "finalize"
    /\ \E latency_ms \in Latencies :
       LET message_metadata == FinalMetadata(req[r].tool_calls)
       IN IF req[r].assistant_message_id # NoId
          THEN \E raised \in Raises :
               /\ Fault(raised)
               /\ IF raised
                  THEN req' = Raise(r, "store") /\ UNCHANGED messages
                  ELSE /\ messages' =
                            update_message(req[r].assistant_message_id, None, "completed",
                                           "stop", latency_ms, message_metadata)
                       /\ req' = Goto(r, "title")
          ELSE IF req[r].assistant_content # <<>>
          THEN \E raised \in Raises :
               /\ Fault(raised)
               /\ IF raised
                  THEN req' = Raise(r, "store") /\ UNCHANGED messages
                  ELSE /\ messages' =
                            create_message(req[r].conversation_id, "assistant",
                                           req[r].assistant_content, req[r].user_message_id,
                                           "completed", "stop", latency_ms, message_metadata)
                       /\ req' = Goto(r, "title")
          ELSE /\ req' = Goto(r, "title")
               /\ UNCHANGED <<messages, faults>>
    /\ UNCHANGED <<conversations, user_context, uuids, started, consumed, last_call, auth_vars>>

\* lines 427-433
ReloadForTitle(r) ==
    /\ req[r].pc = "title"
    /\ IF NeedsTitle(req[r])
       THEN \E raised \in Raises :
            /\ Fault(raised)
            /\ req' =
                IF raised THEN Raise(r, "store")
                ELSE LET conversation ==
                            get_conversation_by_id(req[r].conversation_id, req[r].user_id)
                     IN [req EXCEPT
                            ![r].conversation = conversation,
                            ![r].pc = IF /\ conversation # NoId
                                         /\ ~Truthy(conversations[conversation].title)
                                      THEN "generate" ELSE "done"]
       ELSE req' = Goto(r, "done") /\ UNCHANGED faults
    /\ UNCHANGED <<conversations, messages, user_context, uuids, started, consumed,
                   last_call, auth_vars>>

\* lines 434-447
GenerateTitle(r, reply) ==
    /\ req[r].pc = "generate"
    /\ \E raised \in Raises :
        /\ IF ~raised
           THEN /\ Fault(FALSE)
                /\ conversations' =
                        update_conversation_title(
                            req[r].conversation_id,
                            generate_conversation_title(req[r].message, reply))
                /\ req' = Goto(r, "done")
           ELSE \E raised_again \in {FALSE} \cup {faults + 1 < MaxFaults} :
                /\ faults' = faults + (IF raised_again THEN 2 ELSE 1)
                /\ IF raised_again
                   THEN req' = Raise(r, "store") /\ UNCHANGED conversations
                   ELSE /\ conversations' =
                                update_conversation_title(req[r].conversation_id,
                                                          FallbackTitle(req[r].message))
                        /\ req' = Goto(r, "done")
    /\ UNCHANGED <<messages, user_context, uuids, started, consumed, last_call, auth_vars>>

\* mutant: the event is built without the title that was read
DoneTitleDefault(conversation_title) == NewConversation

\* line 463: conversation_title or "New Conversation"
DoneTitle(conversation_title) ==
    IF Truthy(conversation_title) THEN conversation_title ELSE NewConversation

\* lines 449-466
EmitDone(r) ==
    /\ req[r].pc = "done"
    /\ \E raised \in Raises :
        /\ Fault(raised)
        /\ req' =
            IF raised THEN Raise(r, "store")
            ELSE LET conversation ==
                        get_conversation_by_id(req[r].conversation_id, req[r].user_id)
                     conversation_title ==
                        IF conversation # NoId THEN conversations[conversation].title
                        ELSE None
                     conversation_thread_id ==
                        IF conversation # NoId THEN conversations[conversation].thread_id
                        ELSE req[r].final_thread_id
                 IN [req EXCEPT ![r] =
                        Yield([@ EXCEPT !.conversation = conversation, !.pc = "finally"],
                              [type |-> "done", thread_id |-> conversation_thread_id,
                               title |-> DoneTitle(conversation_title)])]
    /\ UNCHANGED <<conversations, messages, user_context, uuids, started, consumed,
                   last_call, auth_vars>>

\* mutant: the handler reports the failure without recording it
RecordFailureSkipped(r) ==
    /\ req[r].pc = "except"
    /\ req' = Goto(r, "error")
    /\ UNCHANGED <<conversations, messages, user_context, uuids, started, consumed, faults,
                   last_call, auth_vars>>

\* mutant: a failure before any assistant row is recorded in a row of its own
RecordFailureInsertsRow(r) ==
    /\ req[r].pc = "except"
    /\ req' = Goto(r, "error")
    /\ \E raised \in Raises :
        /\ Fault(raised)
        /\ messages' =
            IF raised THEN messages
            ELSE IF req[r].assistant_message_id # NoId
            THEN update_message(req[r].assistant_message_id, None, "error", "error", -1,
                                [k \in {"error"} |-> req[r].e])
            ELSE create_message(req[r].conversation_id, "assistant", <<>>,
                                req[r].user_message_id, "error", "error", -1,
                                [k \in {"error"} |-> req[r].e])
    /\ UNCHANGED <<conversations, user_context, uuids, started, consumed, last_call, auth_vars>>

\* lines 467-479: the failure recorder
RecordFailure(r) ==
    /\ req[r].pc = "except"
    /\ req' = Goto(r, "error")
    /\ IF req[r].assistant_message_id # NoId
       THEN \E raised \in Raises :
            /\ Fault(raised)
            /\ messages' =
                IF raised THEN messages
                ELSE update_message(req[r].assistant_message_id, None, "error", "error", -1,
                                    [k \in {"error"} |-> req[r].e])
       ELSE UNCHANGED <<messages, faults>>
    /\ UNCHANGED <<conversations, user_context, uuids, started, consumed, last_call, auth_vars>>

\* mutant: without a row the error event carries the thread id the client sent
ErrorThreadIdSupplied(frame, conversation) ==
    IF conversation # NoId THEN conversations[conversation].thread_id ELSE frame.thread_id

\* lines 481-500: the thread id of the row that was read, or else final_thread_id
ErrorThreadId(frame, conversation) ==
    IF conversation # NoId
    THEN conversations[conversation].thread_id ELSE frame.final_thread_id

\* lines 481-503
EmitError(r) ==
    /\ req[r].pc = "error"
    /\ \E raised \in (IF req[r].conversation_id # NoId THEN Raises ELSE {FALSE}) :
        /\ Fault(raised)
        /\ LET conversation ==
                   IF req[r].conversation_id # NoId /\ ~raised
                   THEN get_conversation_by_id(req[r].conversation_id, req[r].user_id)
                   ELSE NoId
               title == IF conversation # NoId THEN conversations[conversation].title
                        ELSE None
           IN req' = [req EXCEPT ![r] =
                Yield([@ EXCEPT !.pc = "finally",
                                !.conversation = IF req[r].conversation_id # NoId /\ ~raised
                                                 THEN conversation ELSE @],
                      [type |-> "error", message |-> req[r].e,
                       thread_id |-> ErrorThreadId(req[r], conversation),
                       title |-> IF Truthy(title) THEN title ELSE NewConversation])]
    /\ UNCHANGED <<conversations, messages, user_context, uuids, started, consumed,
                   last_call, auth_vars>>

\* mutant: `except BaseException`: the handler also takes what is not an Exception
PropagateCaught(r, exc) == [req EXCEPT ![r].pc = "except", ![r].e = exc, ![r].exc = exc]

\* line 467: `except Exception` lets a BaseException (asyncio.CancelledError,
\* GeneratorExit) through; the frame unwinds and only the finally clause is left
Propagate(r, exc) == [req EXCEPT ![r].pc = "unwound", ![r].exc = exc]

\* the task is cancelled while the generator awaits: the next engine event (line
\* 324) or the title model (line 437)
Cancel(r) ==
    /\ req[r].pc \in {"stream", "generate"}
    /\ req' = Propagate(r, "CancelledError")
    /\ UNCHANGED <<conversations, messages, user_context, uuids, started, consumed, faults,
                   last_call, auth_vars>>

\* the consumer is gone and the generator is closed where it is suspended, at a
\* yield of the loop (lines 362-382)
Disconnect(r) ==
    /\ req[r].pc = "stream"
    /\ req[r].events # <<>>
    /\ req' = Propagate(r, "GeneratorExit")
    /\ UNCHANGED <<conversations, messages, user_context, uuids, started, consumed, faults,
                   last_call, auth_vars>>

\* mutant: db.close() follows the try statement instead of being its finally clause
ReleaseOnReturn(frame) ==
    [NoFrame EXCEPT !.pc = "closed", !.db = IF frame.exc = "" THEN "closed" ELSE "open"]

\* lines 504-505: db.close(); the frame is released
Release(frame) == [NoFrame EXCEPT !.pc = "closed", !.db = "closed"]

\* the finally clause, on every way out of the try statement
Close(r) ==
    /\ req[r].pc \in {"finally", "unwound"}
    /\ req' = [req EXCEPT ![r] = Release(@)]
    /\ UNCHANGED <<conversations, messages, user_context, uuids, started, consumed, faults,
                   last_call, auth_vars>>

Next ==
    \E r \in Requests :
        \/ \E message \in UserMessages, thread_id \in KnownThreads, user_id \in Users :
                Start(r, message, thread_id, user_id)
        \/ LookupConversation(r)
        \/ CreateConversation(r)
        \/ SaveUserMessage(r)
        \/ \E message_chunk \in Chunks : TokenEvent(r, message_chunk)
        \/ \E step \in Steps : StepEvent(r, step.node_name, step.node_data)
        \/ \E data \in Payloads : CustomEvent(r, data)
        \/ FeedRaises(r)
        \/ FeedEnds(r)
        \/ Finalize(r)
        \/ ReloadForTitle(r)
        \/ \E reply \in TitleReplies : GenerateTitle(r, reply)
        \/ EmitDone(r)
        \/ RecordFailure(r)
        \/ EmitError(r)
        \/ Cancel(r)
        \/ Disconnect(r)
        \/ Close(r)

Spec == Init /\ [][Next]_vars

(* ------------------------- overlapping requests ----------------------- *)
\* routes/ai.py lines 15-28: every POST /chat gets a generator of its own, and the
\* event loop runs the generators of the open responses in turns
StartOverlapping(r, message, thread_id, user_id) ==
    /\ req[r].pc = "idle"
    /\ r = started + 1
    /\ started' = r
    /\ LET fresh == thread_id = ""
       IN /\ uuids' = IF fresh THEN uuids + 1 ELSE uuids
          /\ req' = [req EXCEPT ![r] =
                [NoFrame EXCEPT
                    !.pc = "lookup", !.message = message, !.thread_id = thread_id,
                    !.user_id = user_id, !.db = "open",
                    !.final_thread_id = FinalThreadId(thread_id, uuids + 1)]]
    /\ UNCHANGED <<conversations, messages, user_context, consumed, faults, last_call, auth_vars>>

NextOverlapping ==
    \E r \in Requests :
        \/ \E message \in UserMessages, thread_id \in KnownThreads, user_id \in Users :
                StartOverlapping(r, message, thread_id, user_id)
        \/ LookupConversation(r)
        \/ CreateConversation(r)
        \/ SaveUserMessage(r)
        \/ \E message_chunk \in Chunks : TokenEvent(r, message_chunk)
        \/ \E step \in Steps : StepEvent(r, step.node_name, step.node_data)
        \/ \E data \in Payloads : CustomEvent(r, data)
        \/ FeedRaises(r)
        \/ FeedEnds(r)
        \/ Finalize(r)
        \/ ReloadForTitle(r)
        \/ \E reply \in TitleReplies : GenerateTitle(r, reply)
        \/ EmitDone(r)
        \/ RecordFailure(r)
        \/ EmitError(r)
        \/ Cancel(r)
        \/ Disconnect(r)
        \/ Close(r)

\* the store raises nothing but the uniqueness conflict of the thread index
InitOverlapping ==
    /\ conversations = <<>>
    /\ messages = <<>>
    /\ req = [r \in Requests |-> NoFrame]
    /\ user_context = NoContext
    /\ uuids = 0
    /\ started = 0
    /\ consumed = 0
    /\ faults = MaxFaults
    /\ last_call = [op |-> "none"]
    /\ blacklisted_tokens = <<>>
    /\ now = 0

SpecOverlapping == InitOverlapping /\ [][NextOverlapping]_vars

(* ------------------ overlapping requests on one thread ---------------- *)
\* the thread t of user u1 after one completed exchange
InitSameThread ==
    /\ conversations = <<[user_id |-> "u1", thread_id |-> "t", title |-> <<"T">>]>>
    /\ messages =
        <<[conversation_id |-> 1, parent_message_id |-> NoId, role |-> "user",
           content |-> <<"h", "i">>, status |-> "completed", finish_reason |-> "None",
           latency_ms |-> -1, message_metadata |-> NoMetadata],
          [conversation_id |-> 1, parent_message_id |-> 1, role |-> "assistant",
           content |-> <<"a">>, status |-> "completed", finish_reason |-> "stop",
           latency_ms |-> 5, message_metadata |-> NoMetadata]>>
    /\ req = [r \in Requests |-> NoFrame]
    /\ user_context = NoContext
    /\ uuids = 0
    /\ started = 0
    /\ consumed = 0
    /\ faults = MaxFaults
    /\ last_call = [op |-> "none"]
    /\ blacklisted_tokens = <<>>
    /\ now = 0

\* both requests are POST /chat of u1 on thread t; the title step of line 428 is
\* skipped by a request that found its conversation
NextSameThread ==
    \E r \in Requests :
        \/ \E message \in UserMessages : StartOverlapping(r, message, "t", "u1")
        \/ LookupConversation(r)
        \/ CreateConversation(r)
        \/ SaveUserMessage(r)
        \/ \E message_chunk \in Chunks : TokenEvent(r, message_chunk)
        \/ \E step \in Steps : StepEvent(r, step.node_name, step.node_data)
        \/ \E data \in Payloads : CustomEvent(r, data)
        \/ FeedRaises(r)
        \/ FeedEnds(r)
        \/ Finalize(r)
        \/ ReloadForTitle(r)
        \/ EmitDone(r)
        \/ RecordFailure(r)
        \/ EmitError(r)
        \/ Cancel(r)
        \/ Disconnect(r)
        \/ Close(r)

SpecSameThread == InitSameThread /\ [][NextSameThread]_vars

(* ------------------- the services, called directly -------------------- *)
\* titles a caller passes to the setter
Titles == {<<"A">>, <<"B">>}

StoreThreads == ClientThreads \cup {Uuid(1)}

\* conversation_service.create_conversation(user_id, thread_id, title=None, db)
CallCreateConversation(user_id, thread_id) ==
    /\ Len(conversations) < MaxRows
    /\ IF ThreadIdTaken(thread_id)
       THEN /\ last_call' = [op |-> "create_conversation", raised |-> TRUE]
            /\ UNCHANGED conversations
       ELSE /\ conversations' = create_conversation(user_id, thread_id, None)
            /\ last_call' = [op |-> "create_conversation", raised |-> FALSE]
    /\ UNCHANGED <<messages, req, user_context, uuids, started, consumed, faults, auth_vars>>

\* conversation_service.update_conversation_title(conversation_id, title, db)
CallUpdateConversationTitle(conversation_id, title) ==
    /\ conversations' = update_conversation_title(conversation_id, title)
    /\ last_call' =
            [op |-> "update_conversation_title", conversation_id |-> conversation_id,
             title |-> title,
             before |-> IF conversation_id \in DOMAIN conversations
                        THEN conversations[conversation_id].title ELSE None]
    /\ UNCHANGED <<messages, req, user_context, uuids, started, consumed, faults, auth_vars>>

\* contents a caller passes to the ledger
Contents == {<<"m">>}

\* chat_message_service.create_message(conversation_id, role, content, db); the
\* foreign key of conversation_id rejects a row of no conversation
CallCreateMessage(conversation_id, content) ==
    /\ Len(messages) < MaxRows
    /\ IF conversation_id \in DOMAIN conversations
       THEN /\ messages' = create_message(conversation_id, "user", content, NoId,
                                          "completed", "None", -1, NoMetadata)
            /\ last_call' = [op |-> "create_message", raised |-> FALSE]
       ELSE /\ last_call' = [op |-> "create_message", raised |-> TRUE]
            /\ UNCHANGED messages
    /\ UNCHANGED <<conversations, req, user_context, uuids, started, consumed, faults, auth_vars>>

\* chat_message_service.get_conversation_messages(conversation_id, user_id, db)
CallGetConversationMessages(conversation_id, user_id) ==
    /\ last_call' =
            [op |-> "get_conversation_messages", conversation_id |-> conversation_id,
             user_id |-> user_id, raised |-> FALSE,
             result |-> get_conversation_messages(conversation_id, user_id)]
    /\ UNCHANGED <<conversations, messages, req, user_context, uuids, started, consumed,
                   faults, auth_vars>>

HTTP_200_OK == 200
HTTP_404_NOT_FOUND == 404

\* GET /threads/{thread_id} as user_id: routes/ai.py lines 60-94
CallGetThreadConversation(thread_id, user_id) ==
    /\ LET conversation == get_conversation_by_thread_id(user_id, thread_id)
       IN last_call' =
            IF conversation = NoId
            THEN [op |-> "get_thread_conversation", thread_id |-> thread_id,
                  user_id |-> user_id, status_code |-> HTTP_404_NOT_FOUND,
                  messages |-> <<>>]
            ELSE [op |-> "get_thread_conversation", thread_id |-> thread_id,
                  user_id |-> user_id, status_code |-> HTTP_200_OK,
                  messages |-> get_conversation_messages(conversation, user_id)]
    /\ UNCHANGED <<conversations, messages, req, user_context, uuids, started, consumed,
                   faults, auth_vars>>

NextStore ==
    \/ \E user_id \in Users, thread_id \in StoreThreads :
            CallCreateConversation(user_id, thread_id)
    \/ \E conversation_id \in 1..MaxRows, title \in Titles :
            CallUpdateConversationTitle(conversation_id, title)
    \/ \E conversation_id \in 1..MaxRows, content \in Contents :
            CallCreateMessage(conversation_id, content)
    \/ \E conversation_id \in 1..MaxRows, user_id \in Users :
            CallGetConversationMessages(conversation_id, user_id)
    \/ \E thread_id \in StoreThreads, user_id \in Users :
            CallGetThreadConversation(thread_id, user_id)

SpecStore == Init /\ [][NextStore]_vars

(* ----------------------- the ledger, called directly ------------------ *)
\* keyword arguments a caller passes to update_message; what is not passed is None
Updates ==
    {[content |-> <<"n">>, status |-> "None", finish_reason |-> "None", latency_ms |-> -1,
      message_metadata |-> NoMetadata],
     [content |-> None, status |-> "error", finish_reason |-> "error", latency_ms |-> 7,
      message_metadata |-> NoMetadata],
     [content |-> None, status |-> "None", finish_reason |-> "None", latency_ms |-> -1,
      message_metadata |-> [k \in {"error"} |-> "x"]],
     [content |-> None, status |-> "None", finish_reason |-> "None", latency_ms |-> -1,
      message_metadata |-> [k \in {"error", "tool_calls"} |-> IF k = "error" THEN "z" ELSE "y"]]}

\* chat_message_service.update_message(message_id, **update, db): the result is the
\* id of the row returned, NoId for None
CallUpdateMessage(message_id, update) ==
    /\ messages' = update_message(message_id, update.content, update.status,
                                  update.finish_reason, update.latency_ms,
                                  update.message_metadata)
    /\ last_call' =
            [op |-> "update_message", message_id |-> message_id, update |-> update,
             result |-> IF message_id \in DOMAIN messages THEN message_id ELSE NoId]
    /\ UNCHANGED <<conversations, req, user_context, uuids, started, consumed, faults, auth_vars>>

\* one conversation exists
InitLedger ==
    /\ conversations = <<[user_id |-> "u1", thread_id |-> "t", title |-> None]>>
    /\ messages = <<>>
    /\ req = [r \in Requests |-> NoFrame]
    /\ user_context = NoContext
    /\ uuids = 0
    /\ started = 0
    /\ consumed = 0
    /\ faults = 0
    /\ last_call = [op |-> "none"]
    /\ blacklisted_tokens = <<>>
    /\ now = 0

NextLedger ==
    \/ \E content \in Contents : CallCreateMessage(1, content)
    \/ \E message_id \in 1..(MaxRows + 1), update \in Updates :
            CallUpdateMessage(message_id, update)

SpecLedger == InitLedger /\ [][NextLedger]_vars

(* ------------------ the title synthesizer, called directly ------------ *)
\* a text of n times the character c
Repeat(c, n) == [i \in 1..n |-> c]

\* first user messages: AIRequest.message is any text of at least one character
TitleMessages ==
    {<<"h", "i">>, <<" ">>, <<"a", " ", "b", " ", "c", " ", "d", " ", "e", " ", "f", " ", "g">>}
    \cup {Repeat("w", n) : n \in {1, 2, 3, TitleKeep, TitleLimit - 1, TitleLimit,
                                  TitleLimit + 1}}

\* what model.ainvoke answers: the call raises, or a text
ModelReplies ==
    {ModelRaises, <<>>, <<" ">>, <<"T">>, <<"\"", "T", "\"">>, <<"'", "T", "'">>,
     <<"\"", " ", "\"">>, <<"T", "i", "t", "l", "e", ":", " ", "T">>}
    \cup {Repeat("x", n) : n \in {TitleKeep, TitleLimit - 1, TitleLimit, TitleLimit + 1,
                                  TitleLimit + LabelLen}}

\* await generate_conversation_title(user_message, assistant_message), the model
\* answering with reply
CallGenerateConversationTitle(user_message, reply) ==
    /\ last_call' =
            [op |-> "generate_conversation_title", user_message |-> user_message,
             reply |-> reply, result |-> generate_conversation_title(user_message, reply)]
    /\ UNCHANGED <<conversations, messages, req, user_context, uuids, started, consumed,
                   faults, auth_vars>>

NextTitle ==
    \E user_message \in TitleMessages, reply \in ModelReplies :
        CallGenerateConversationTitle(user_message, reply)

SpecTitle == Init /\ [][NextTitle]_vars

(* ---------------------- the token services, called directly ----------- *)
\* the clock stops here
MaxClock == 3

\* users.email of the rows of table users
RegisteredEmails == {"e1"}

\* bearer tokens a client can send: a JWT with its claims and the hour it expires,
\* signed with JWT_SECRET_KEY or not
Tokens ==
    {[signed |-> TRUE, email |-> "e1", exp |-> 1],
     [signed |-> TRUE, email |-> "e1", exp |-> 2],
     [signed |-> TRUE, email |-> "", exp |-> 2],
     [signed |-> TRUE, email |-> "e2", exp |-> 2],
     [signed |-> FALSE, email |-> "e1", exp |-> 2]}

\* what jwt.decode raises
InvalidTokenError == [raised |-> "InvalidTokenError"]

HTTP_401_UNAUTHORIZED == 401
\* user.py lines 102-106
credential_exception == [status_code |-> HTTP_401_UNAUTHORIZED]

\* None as a payload
NoPayload == [k \in {} |-> ""]

\* jwt.decode(token, secret_key, algorithms): the claims, or InvalidTokenError for
\* a wrong signature and for a token whose exp has passed
jwt_decode(token) ==
    IF token.signed /\ token.exp > now
    THEN [email |-> token.email, exp |-> token.exp]
    ELSE InvalidTokenError

\* select(BlacklistedToken).where(BlacklistedToken.token == token): a row id or NoId
scalar_blacklisted(token) ==
    IF \E i \in DOMAIN blacklisted_tokens : blacklisted_tokens[i].token = token
    THEN CHOOSE i \in DOMAIN blacklisted_tokens : blacklisted_tokens[i].token = token
    ELSE NoId

\* mutant: the token is decoded without a look at the blacklist
verify_token_unlisted(token) ==
    IF jwt_decode(token) = InvalidTokenError THEN NoPayload ELSE jwt_decode(token)

\* AuthService.verify_token
verify_token(token) ==
    IF scalar_blacklisted(token) # NoId THEN NoPayload
    ELSE IF jwt_decode(token) = InvalidTokenError THEN NoPayload
    ELSE jwt_decode(token)

\* UserService.get_current_user: the user row, or the exception it raises
get_current_user(token) ==
    LET payload == verify_token(token)
    IN IF DOMAIN payload = {} THEN credential_exception
       ELSE IF payload.email = "" THEN credential_exception
       ELSE IF scalar_blacklisted(token) # NoId THEN credential_exception
       ELSE IF payload.email \notin RegisteredEmails THEN credential_exception
       ELSE [email |-> payload.email]

\* AuthService.logout_user: the table after the call, when the commit returns
logout_user(token) ==
    LET payload == verify_token(token)
    IN IF DOMAIN payload = {} THEN blacklisted_tokens
       ELSE IF scalar_blacklisted(token) # NoId THEN blacklisted_tokens
       ELSE Append(blacklisted_tokens, [token |-> token, expires_at |-> payload.exp])

CallVerifyToken(token) ==
    /\ last_call' = [op |-> "verify_token", token |-> token, result |-> verify_token(token)]
    /\ UNCHANGED <<conversations, messages, req, user_context, uuids, started, consumed,
                   faults, auth_vars>>

CallGetCurrentUser(token) ==
    /\ last_call' =
            [op |-> "get_current_user", token |-> token, result |-> get_current_user(token)]
    /\ UNCHANGED <<conversations, messages, req, user_context, uuids, started, consumed,
                   faults, auth_vars>>

\* logout_user(token, db); db.commit() of line 166 returns or raises
CallLogoutUser(token) ==
    /\ \E raised \in (IF logout_user(token) # blacklisted_tokens THEN Raises ELSE {FALSE}) :
        /\ Fault(raised)
        /\ blacklisted_tokens' = IF raised THEN blacklisted_tokens ELSE logout_user(token)
        /\ last_call' = [op |-> "logout_user", token |-> token, raised |-> raised]
    /\ UNCHANGED <<conversations, messages, req, user_context, uuids, started, consumed,
                   now>>

\* an hour passes
Tick ==
    /\ now < MaxClock
    /\ now' = now + 1
    /\ UNCHANGED <<conversations, messages, req, user_context, uuids, started, consumed,
                   faults, last_call, blacklisted_tokens>>

NextAuth ==
    \/ \E token \in Tokens : CallVerifyToken(token)
    \/ \E token \in Tokens : CallGetCurrentUser(token)
    \/ \E token \in Tokens : CallLogoutUser(token)
    \/ Tick

SpecAuth == Init /\ [][NextAuth]_vars

(* ============================== properties ============================ *)
Terminal == {"done", "error"}

\* the positions of the terminal events a request has emitted
TerminalEvents(r) == {i \in DOMAIN req[r].events : req[r].events[i].type \in Terminal}

LastEvent(r) == req[r].events[Len(req[r].events)]

\* the request has left the try statement and only db.close() remains
Finished(r) == req[r].pc = "finally"

\* C1: a request emits no terminal event while it runs and exactly one by the time
\* it ends, whatever the feed delivered, whether it ended or raised and whichever
\* store operation raised; the terminal event is the last event on the wire.
C1_ExactlyOneTerminalEvent ==
    \A r \in Requests :
        /\ Cardinality(TerminalEvents(r)) <= 1
        /\ TerminalEvents(r) # {} => TerminalEvents(r) = {Len(req[r].events)}
        /\ Finished(r) <=> TerminalEvents(r) # {}
        /\ Finished(r) /\ LastEvent(r).type = "done" => req[r].e = ""
        /\ Finished(r) /\ LastEvent(r).type = "error" => req[r].e # ""

\* C1 witness: a store operation raised after client events were emitted, and the
\* request ended with the error event as its last event
C1_Witness ==
    \E r \in Requests :
        /\ Finished(r)
        /\ req[r].e = "store"
        /\ Len(req[r].events) >= 2
        /\ LastEvent(r).type = "error"

\* the assistant row of the request, once it has one
AssistantRow(r) == messages[req[r].assistant_message_id]

\* C2: after the N-th token has been processed the persisted content is the
\* concatenation of the first N deltas, and every write of a message's content
\* extends what was stored before.
C2_PersistedPrefix ==
    /\ [](\A r \in Requests :
            req[r].assistant_message_id # NoId =>
                AssistantRow(r).content = Concat(req[r].deltas))
    /\ [][\A m \in DOMAIN messages :
            IsPrefix(messages[m].content, messages'[m].content)]_vars

\* C2 witness: two deltas processed, the second by an update
C2_Witness ==
    \E r \in Requests :
        /\ req[r].deltas = <<(<<"a">>), (<<"a">>)>>
        /\ AssistantRow(r).content = <<"a", "a">>

\* the feed raised while the request held a pending assistant row
FeedFailedMidAnswer(r) ==
    /\ req[r].e = "engine"
    /\ req[r].assistant_message_id # NoId

\* C3: when the feed raises after a token was persisted, the failure recorder (its
\* update returning) leaves the assistant row with status=error and
\* finish_reason=error and with the content accumulated before the failure, and
\* the request ends with an error event that carries the thread id of the resolved
\* conversation.
C3_PartialAnswerKept ==
    /\ [][\A r \in Requests :
            /\ FeedFailedMidAnswer(r)
            /\ req[r].pc = "except" /\ req'[r].pc = "error"
            /\ faults' = faults
            => LET before == messages[req[r].assistant_message_id]
                   after == messages'[req[r].assistant_message_id]
               IN /\ after.status = "error"
                  /\ after.finish_reason = "error"
                  /\ after.content = before.content]_vars
    /\ [](\A r \in Requests :
            FeedFailedMidAnswer(r) =>
                /\ AssistantRow(r).content # <<>>
                /\ AssistantRow(r).content = Concat(req[r].deltas)
                /\ AssistantRow(r).status \in {"pending", "error"}
                /\ req[r].pc = "error" /\ AssistantRow(r).status = "pending" => faults > 0
                /\ Finished(r) =>
                    /\ LastEvent(r).type = "error"
                    /\ LastEvent(r).thread_id =
                            conversations[req[r].conversation_id].thread_id)

\* C3 witness: the feed raised after one token, the row is in error with that token
\* as content and the error event has been emitted
C3_Witness ==
    \E r \in Requests :
        /\ FeedFailedMidAnswer(r)
        /\ Finished(r)
        /\ AssistantRow(r).status = "error"
        /\ AssistantRow(r).finish_reason = "error"
        /\ AssistantRow(r).content = <<"a">>
        /\ LastEvent(r).type = "error"

\* the request has opened the engine feed
FeedOpened(r) ==
    \/ req[r].pc \in {"stream", "finalize", "title", "generate", "done"}
    \/ req[r].e = "engine"
    \/ \E i \in DOMAIN req[r].events : req[r].events[i].type \notin Terminal

\* the row of the user turn as line 309 writes it
UserRow(r) ==
    [conversation_id |-> req[r].conversation_id, parent_message_id |-> NoId,
     role |-> "user", content |-> req[r].message, status |-> "completed",
     finish_reason |-> "None", latency_ms |-> -1, message_metadata |-> NoMetadata]

\* C4: whenever a request has opened the feed, its user message is in the ledger
\* with role=user and status=completed, and a user row is never changed afterwards,
\* also not when the feed raises or delivers nothing.
C4_UserTurnFirst ==
    /\ [](\A r \in Requests :
            FeedOpened(r) =>
                /\ req[r].user_message_id \in DOMAIN messages
                /\ messages[req[r].user_message_id] = UserRow(r))
    /\ [][\A m \in DOMAIN messages :
            messages[m].role = "user" =>
                m \in DOMAIN messages' /\ messages'[m] = messages[m]]_vars

\* C4 witness: the feed raised before it delivered anything, the error event is out
\* and the user row is in the ledger
C4_Witness ==
    \E r \in Requests :
        /\ Finished(r)
        /\ req[r].e = "engine"
        /\ Len(req[r].events) = 1
        /\ req[r].assistant_message_id = NoId
        /\ messages[req[r].user_message_id] = UserRow(r)

\* the request that is titling conversation c: it created c and its exchange has
\* completed with content
Titling(r, c) ==
    /\ req[r].pc = "generate"
    /\ req[r].is_new_conversation
    /\ req[r].conversation_id = c
    /\ req[r].assistant_content # <<>>
    /\ req[r].assistant_message_id # NoId
    /\ AssistantRow(r).status = "completed"
    /\ AssistantRow(r).content # <<>>

\* C5: a conversation is created with no title; its title changes only from unset
\* to a non-empty value, in the request that created the conversation, after that
\* request's exchange completed with non-empty assistant content; no other step of
\* any request changes a title.
C5_TitleSetOnce ==
    [][\A c \in DOMAIN conversations' :
        /\ c \notin DOMAIN conversations => conversations'[c].title = None
        /\ c \in DOMAIN conversations /\ conversations'[c].title # conversations[c].title =>
            /\ conversations[c].title = None
            /\ Truthy(conversations'[c].title)
            /\ \E r \in Requests : Titling(r, c)]_vars

\* C5 witness: a later request on a titled thread has ended, and the title is there
C5_Witness ==
    \E r \in Requests :
        /\ Finished(r)
        /\ ~req[r].is_new_conversation
        /\ req[r].conversation_id # NoId
        /\ req[r].assistant_content # <<>>
        /\ Truthy(conversations[req[r].conversation_id].title)

\* C7 (as claimed): the status of a message changes only from pending to completed
\* or from pending to error.
C7_StatusOnlyLeavesPending ==
    [][\A m \in DOMAIN messages :
        messages'[m].status # messages[m].status =>
            /\ messages[m].status = "pending"
            /\ messages'[m].status \in {"completed", "error"}]_vars

\* the assistant rows that answer the user turn of the request
AssistantRowsOf(r) ==
    {m \in DOMAIN messages :
        /\ messages[m].role = "assistant"
        /\ messages[m].parent_message_id = req[r].user_message_id}

\* C8: a request has no assistant row before its first non-discarded token is
\* processed and exactly one, the row it remembers, from then on; an assistant row
\* is inserted with status pending.
C8_OneAssistantRow ==
    /\ [](\A r \in Requests :
            req[r].user_message_id # NoId =>
                /\ req[r].deltas = <<>> =>
                    AssistantRowsOf(r) = {} /\ req[r].assistant_message_id = NoId
                /\ req[r].deltas # <<>> =>
                    AssistantRowsOf(r) = {req[r].assistant_message_id})
    /\ [][\A m \in DOMAIN messages' :
            m \notin DOMAIN messages /\ messages'[m].role = "assistant" =>
                messages'[m].status = "pending"]_vars

\* C8 witness: two tokens processed and the turn finalized, one assistant row
C8_Witness ==
    \E r \in Requests :
        /\ Len(req[r].deltas) = 2
        /\ req[r].pc = "title"
        /\ Cardinality(AssistantRowsOf(r)) = 1

\* the conversation of the requesting user that carries the thread id of the request
Existing(r) ==
    LET rows == {c \in DOMAIN conversations :
                    /\ conversations[c].user_id = req[r].user_id
                    /\ conversations[c].thread_id = req[r].thread_id}
    IN IF rows = {} THEN NoId ELSE CHOOSE c \in rows : TRUE

\* C9: a request with a non-empty thread id for which the user has a conversation
\* goes on with that conversation and is_new_conversation false, adds no
\* conversation row, and writes its user message to that conversation.
C9_ExistingThreadReused ==
    /\ [][\A r \in Requests :
            /\ req[r].pc = "create"
            /\ req[r].thread_id # ""
            /\ Existing(r) # NoId
            => /\ conversations' = conversations
               /\ req'[r].pc = "save_user"
               /\ req'[r].conversation_id = Existing(r)
               /\ ~req'[r].is_new_conversation]_vars
    /\ [](\A r \in Requests :
            req[r].user_message_id # NoId /\ ~req[r].is_new_conversation =>
                /\ req[r].conversation_id = Existing(r)
                /\ messages[req[r].user_message_id].conversation_id = Existing(r))

\* C9 witness: the second request of a user on the thread of the first one has
\* written its user message to the one conversation there is
C9_Witness ==
    \E r \in Requests :
        /\ req[r].pc = "stream"
        /\ ~req[r].is_new_conversation
        /\ Len(conversations) = 1
        /\ Len(messages) >= 2
        /\ messages[req[r].user_message_id].conversation_id = 1

Generated == {Uuid(n) : n \in 1..uuids}

\* C10: conversations never share a thread id; a request with the empty thread id
\* never runs into the uniqueness conflict, and when it ends with the done event
\* it has created a conversation of its own under a generated thread id, which the
\* done event reports.
C10_FreshThreadPerRequest ==
    /\ \A c, d \in DOMAIN conversations :
            c # d => conversations[c].thread_id # conversations[d].thread_id
    /\ \A r \in Requests :
            req[r].thread_id = "" /\ Active(r) =>
                /\ req[r].e # "integrity"
                /\ req[r].final_thread_id \in Generated
                /\ Finished(r) /\ LastEvent(r).type = "done" =>
                    /\ req[r].is_new_conversation
                    /\ conversations[req[r].conversation_id] =
                            [user_id |-> req[r].user_id,
                             thread_id |-> req[r].final_thread_id,
                             title |-> conversations[req[r].conversation_id].title]
                    /\ LastEvent(r).thread_id = req[r].final_thread_id

\* C10 witness: the second of two requests of one user with the empty thread id has
\* emitted its done event; there are two conversations with the two generated ids
C10_Witness ==
    /\ Finished(2)
    /\ req[2].thread_id = ""
    /\ LastEvent(2).type = "done"
    /\ LastEvent(2).thread_id = Uuid(2)
    /\ Len(conversations) = 2
    /\ conversations[1].user_id = conversations[2].user_id
    /\ conversations[1].thread_id = Uuid(1)
    /\ conversations[2].thread_id = Uuid(2)

RacedBy(r, q) ==
    /\ q # r
    /\ Active(q)
    /\ req[q].user_id = req[r].user_id
    /\ req[q].thread_id = req[r].thread_id
    /\ req[q].is_new_conversation
    /\ req[q].conversation_id # NoId

\* C11: when two requests of one user name the same new thread id and both look it
\* up before either inserts, the one that loses the insert recovers from the
\* uniqueness conflict: no request is on the failed path with the conflict as its
\* exception while the request that won the insert for the same user and thread
\* id is running, and the thread id has one row.
C11_ConflictRecovered ==
    \A r \in Requests :
        /\ req[r].thread_id # "" /\ req[r].e = "integrity"
                => ~\E q \in Requests : RacedBy(r, q)
        /\ Cardinality({c \in DOMAIN conversations :
                            conversations[c].thread_id = req[r].final_thread_id}) <= 1

\* the ledger rows of a conversation
RowsOf(conversation_id) ==
    {m \in DOMAIN messages : messages[m].conversation_id = conversation_id}

\* the latest call read a conversation that has rows and belongs to somebody else
ForeignLedgerRead ==
    /\ last_call.op = "get_conversation_messages"
    /\ last_call.conversation_id \in DOMAIN conversations
    /\ ~OwnedBy(last_call.conversation_id, last_call.user_id)
    /\ RowsOf(last_call.conversation_id) # {}

\* the latest call asked the endpoint for a thread of somebody else that has rows
ForeignThreadRead ==
    /\ last_call.op = "get_thread_conversation"
    /\ \E c \in DOMAIN conversations :
            /\ conversations[c].thread_id = last_call.thread_id
            /\ conversations[c].user_id # last_call.user_id
            /\ RowsOf(c) # {}

C13_ToolRunsOwnContext ==
    \A r \in Requests :
        req[r].tool_context # NoContext
            => req[r].tool_context = [user_id |-> req[r].user_id, db |-> r]

\* the task was cancelled while the generator awaited the next engine event: the
\* assistant row, if there is one, had not been finalized
CancelledInFeed(r) ==
    /\ req[r].exc = "CancelledError"
    /\ req[r].assistant_message_id # NoId => AssistantRow(r).status # "completed"

\* C14: a request cancelled while it awaits the next engine event is handled like
\* a feed that raised: by the time only db.close() is left, its assistant row is
\* no longer pending but status=error with finish_reason=error, and its last
\* client event is the error event, with thread id and title.
C14_CancelHandledAsFailure ==
    \A r \in Requests :
        CancelledInFeed(r) /\ req[r].pc = "unwound"
            => /\ req[r].events # <<>>
               /\ LastEvent(r).type = "error"
               /\ req[r].assistant_message_id # NoId
                    => /\ AssistantRow(r).status = "error"
                       /\ AssistantRow(r).finish_reason = "error"

\* the generator of the request was closed under it by its consumer
Disconnected(r) == req[r].exc = "GeneratorExit"

\* C15: once the consumer has closed the generator at a yield of the loop, the
\* request writes neither a ledger row nor a conversation row any more, and the
\* assistant row it had inserted stays pending with the content of the last write
\* that completed: nothing but a request that holds the row and has not been
\* closed changes it.
C15_DisconnectWritesNothing ==
    /\ [](\A r \in Requests :
            Disconnected(r) /\ req[r].assistant_message_id # NoId
                => /\ AssistantRow(r).status = "pending"
                   /\ AssistantRow(r).finish_reason = "None"
                   /\ AssistantRow(r).content = Concat(req[r].deltas))
    /\ [][(\E r \in Requests : Disconnected(r))
                => messages' = messages /\ conversations' = conversations]_vars
    /\ [][\A m \in DOMAIN messages :
            messages'[m] # messages[m]
                => \E r \in Requests :
                        req[r].assistant_message_id = m /\ ~Disconnected(r)]_vars

\* C15 witness: the consumer left after the second token had been written
C15_Witness ==
    \E r \in Requests :
        /\ Disconnected(r)
        /\ req[r].pc = "unwound"
        /\ Len(req[r].deltas) = 2
        /\ AssistantRow(r).status = "pending"
        /\ AssistantRow(r).content = <<"a", "a">>

\* the try statement has been left, by a terminal event or by an exception that
\* passed the handler
LeftTry(r) == req[r].pc \in {"finally", "unwound"}

\* C16: the session of a request is open while the request runs and closed once
\* it has ended, whichever way it left the try statement: after done, after error,
\* cancelled or closed by its consumer, the one step left to it closes the
\* session; and rows are only written by a request whose session is open.
C16_SessionClosedOnEveryExit ==
    /\ [](\A r \in Requests :
            /\ Active(r) => req[r].db = "open"
            /\ req[r].pc = "closed" => req[r].db = "closed")
    /\ [][\A r \in Requests :
            LeftTry(r) /\ req'[r] # req[r] => req'[r].db = "closed"]_vars
    /\ [][messages' # messages \/ conversations' # conversations
            => \E r \in Requests : req[r].db = "open" /\ req'[r] # req[r]]_vars

\* C16 witness: a request that was cancelled or closed by its consumer after its
\* first token (its assistant row is pending and no store operation raised) has
\* ended with its session closed
C16_Witness ==
    /\ faults = 0
    /\ req[1].pc = "closed"
    /\ req[1].db = "closed"
    /\ \E m \in DOMAIN messages : messages[m].status = "pending"

\* message.split()[:6] joined by single spaces
FirstWords(s) ==
    LET words == split(s)
    IN join(SubSeq(words, 1, IF Len(words) > 6 THEN 6 ELSE Len(words)))

\* the title the conversation of the request has in the store
StoredTitle(r) == conversations[req[r].conversation_id].title

NonTerminalEvents(r) == SelectSeq(req[r].events, LAMBDA ce : ce.type \notin Terminal)

\* the client event ce is what the engine event ev is forwarded as
ForwardOf(ev, ce) ==
    \/ ev.mode = "messages" /\ ce.type = "text" /\ ce.content = ev.data.content
    \/ ev.mode = "updates" /\ ce.type = "tool_update" /\ ce.content[1] \in
            {ev.data.node_name} \cup {ev.data.node_data[k] : k \in DOMAIN ev.data.node_data}
    \/ ev.mode = "custom" /\ ce.type = "custom" /\ ce.content = ev.data

\* the engine event the request handled last
LastHandled(r) == req[r].feed[Len(req[r].feed)]

\* C19: the text, tool_update and custom events of a request are in the order of
\* the engine events they forward: they map, one to one and in order, to engine
\* events the request handled, and no custom engine event is left out.  Handling a
\* custom engine event appends the one custom client event with the payload as it
\* came and writes nothing to the store.
C19_EngineOrderKept ==
    /\ [](\A r \in Requests :
            LET out == NonTerminalEvents(r)
                feed == req[r].feed
            IN \E f \in [DOMAIN out -> DOMAIN feed] :
                    /\ \A i, j \in DOMAIN out : i < j => f[i] < f[j]
                    /\ \A i \in DOMAIN out : ForwardOf(feed[f[i]], out[i])
                    /\ \A k \in DOMAIN feed :
                            feed[k].mode = "custom" => \E i \in DOMAIN out : f[i] = k)
    /\ [][\A r \in Requests :
            Len(req'[r].feed) > Len(req[r].feed) /\ LastHandled(r)'.mode = "custom"
            => /\ req'[r].events =
                    Append(req[r].events,
                           [type |-> "custom", content |-> LastHandled(r)'.data])
               /\ messages' = messages
               /\ conversations' = conversations]_vars

\* C19 witness: a custom event and then the step of a tool were handled, and the
\* client got the custom event and then the tool update
C19_Witness ==
    \E r \in Requests :
        /\ Len(req[r].feed) = 2
        /\ req[r].feed[1].mode = "custom"
        /\ req[r].feed[2].mode = "updates"
        /\ Len(req[r].events) = 2
        /\ req[r].events[1] = [type |-> "custom", content |-> "p"]
        /\ req[r].events[2].type = "tool_update"

\* a content event without text for the user: no text or blanks only, a tool or
\* function message, or a message that carries tool calls
NoActionableText(message) ==
    \/ \A i \in DOMAIN message.content : message.content[i] \in Whitespace
    \/ message.cls \in {"ToolMessage", "FunctionMessage"}
    \/ message.tool_calls

\* C20: a content event with no actionable text is discarded: handling it emits no
\* client event, leaves the buffer as it is and writes nothing to the ledger.
C20_NoTextDiscarded ==
    [][\A r \in Requests :
        /\ Len(req'[r].feed) > Len(req[r].feed)
        /\ LastHandled(r)'.mode = "messages"
        /\ NoActionableText(LastHandled(r)'.data)
        => /\ req'[r].events = req[r].events
           /\ req'[r].assistant_content = req[r].assistant_content
           /\ messages' = messages]_vars

\* the step event names a tool invocation: its node is a tool, or its messages
\* carry a tool call
NamesTool(step) == InRegistry(step.node_name) \/ step.node_data # <<>>

\* the tool the step event names
NamedTool(step) ==
    IF InRegistry(step.node_name) THEN step.node_name ELSE step.node_data[1]

\* C21: every step event that names a tool invocation is forwarded as one
\* tool_update client event about that tool; a tool outside the registry is
\* forwarded with the label "processing" and not dropped.
C21_ToolStepAlwaysShown ==
    [][\A r \in Requests :
        /\ Len(req'[r].feed) > Len(req[r].feed)
        /\ LastHandled(r)'.mode = "updates"
        /\ NamesTool(LastHandled(r)'.data)
        => /\ Len(req'[r].events) = Len(req[r].events) + 1
           /\ LastEvent(r)'.type = "tool_update"
           /\ LastEvent(r)'.content[1] = NamedTool(LastHandled(r)'.data)
           /\ ~InRegistry(NamedTool(LastHandled(r)'.data))
                => LastEvent(r)'.content[2] = "processing"]_vars

\* the request did not find its thread id among the conversations of its user and
\* went on to insert a row
CreatesNamedThread(r) == req[r].thread_id # "" /\ req[r].is_new_conversation

\* C22: a request that names a thread id its user does not have inserts a
\* conversation of its user with exactly that thread id and no title; thread ids
\* are unique per user only, so the insert is not refused when the thread id is
\* one of another user's, and the row of that user is left as it is.
C22_ThreadIdsPerUser ==
    /\ \A r \in Requests :
            CreatesNamedThread(r)
            => /\ req[r].e # "integrity"
               /\ req[r].conversation_id # NoId
                    => /\ conversations[req[r].conversation_id].thread_id = req[r].thread_id
                       /\ conversations[req[r].conversation_id].user_id = req[r].user_id
               /\ req[r].pc = "save_user"
                    => conversations[req[r].conversation_id].title = None
    /\ \A r \in Requests :
            \A c \in DOMAIN conversations :
                Active(r) /\ conversations[c].user_id # req[r].user_id
                    => req[r].conversation # c /\ req[r].conversation_id # c

\* the request is a new conversation's first exchange and produced content
FirstExchange(r) == req[r].is_new_conversation /\ req[r].assistant_content # <<>>

HasToolCalls(table, m) ==
    m \in DOMAIN table /\ "tool_calls" \in DOMAIN table[m].message_metadata

\* C24: handling a step event writes nothing to the ledger; the list of tool
\* calls gets into a row only by the finalization update of the request that
\* holds the row; and at the done event the assistant row is completed with
\* finish_reason=stop and carries the key tool_calls exactly if the request
\* recorded a step update, with the list as recorded.
C24_ToolCallsAtFinalization ==
    /\ [][\A r \in Requests :
            Len(req'[r].feed) > Len(req[r].feed) /\ LastHandled(r)'.mode = "updates"
            => messages' = messages]_vars
    /\ [][\A m \in DOMAIN messages' :
            HasToolCalls(messages', m) /\ ~HasToolCalls(messages, m)
            => \E r \in Requests :
                    req[r].pc = "finalize" /\ req[r].assistant_message_id = m]_vars
    /\ [](\A r \in Requests :
            Finished(r) /\ LastEvent(r).type = "done" /\ req[r].assistant_message_id # NoId
            => /\ AssistantRow(r).status = "completed"
               /\ AssistantRow(r).finish_reason = "stop"
               /\ HasToolCalls(messages, req[r].assistant_message_id)
                    <=> req[r].tool_calls # <<>>
               /\ req[r].tool_calls # <<>>
                    => AssistantRow(r).message_metadata.tool_calls = req[r].tool_calls)

\* C24 witness: a turn with one token and one tool step ended with done and the
\* list of one tool call in the completed row
C24_Witness ==
    \E r \in Requests :
        /\ Finished(r)
        /\ LastEvent(r).type = "done"
        /\ Len(req[r].tool_calls) = 1
        /\ req[r].assistant_message_id # NoId
        /\ AssistantRow(r).status = "completed"
        /\ Len(AssistantRow(r).message_metadata.tool_calls) = 1

\* the field of the row after an update that was given `given` for it, `absent`
\* being the value that stands for None
Overwritten(old, given, absent) == IF given = absent THEN old ELSE given

\* C25: update_message merges the metadata shallowly and overwrites another
\* field only when it is given: the row has every key of the metadata given with
\* the value given and every other key it had with the value it had; content,
\* status, finish_reason and latency_ms are the ones given, or else unchanged; no
\* other row changes; and for an id that is no row the result is None and no row
\* changes.
C25_UpdateMergesMetadata ==
    [][last_call'.op = "update_message"
        => LET m == last_call'.message_id
               u == last_call'.update
           IN IF m \in DOMAIN messages
              THEN LET A == messages[m].message_metadata
                       B == u.message_metadata
                       new == messages'[m]
                   IN /\ last_call'.result = m
                      /\ DOMAIN new.message_metadata = DOMAIN A \cup DOMAIN B
                      /\ \A k \in DOMAIN B : new.message_metadata[k] = B[k]
                      /\ \A k \in DOMAIN A \ DOMAIN B : new.message_metadata[k] = A[k]
                      /\ new.content = Overwritten(messages[m].content, u.content, None)
                      /\ new.status = Overwritten(messages[m].status, u.status, "None")
                      /\ new.finish_reason =
                            Overwritten(messages[m].finish_reason, u.finish_reason, "None")
                      /\ new.latency_ms =
                            Overwritten(messages[m].latency_ms, u.latency_ms, -1)
                      /\ new.role = messages[m].role
                      /\ new.conversation_id = messages[m].conversation_id
                      /\ DOMAIN messages' = DOMAIN messages
                      /\ \A o \in DOMAIN messages \ {m} : messages'[o] = messages[o]
              ELSE /\ last_call'.result = NoId
                   /\ messages' = messages]_vars

\* C25 witness: an update with the one key "error" went to a row whose metadata
\* had the keys "error" and "tool_calls": the first has the new value, the second
\* is kept, and the status that an earlier update gave is still there
C25_Witness ==
    /\ last_call.op = "update_message"
    /\ last_call.result # NoId
    /\ DOMAIN last_call.update.message_metadata = {"error"}
    /\ DOMAIN messages[last_call.message_id].message_metadata = {"error", "tool_calls"}
    /\ messages[last_call.message_id].message_metadata.error = "x"
    /\ messages[last_call.message_id].message_metadata.tool_calls = "y"
    /\ messages[last_call.message_id].status = "error"
    /\ messages[last_call.message_id].content = <<"n">>

\* String(200): the length the title column holds
TitleColumn == 200

\* the marker that ends a title that was cut
Ellipsis == <<".", ".", ".">>

\* C26: for every user message and every reply or failure of the model, the title
\* that generate_conversation_title returns is not empty and fits the title
\* column; a title of the full length of the column that was cut ends with the
\* ellipsis; and a failed call yields the first words of the user message or,
\* with no word, the default title.
C26_TitleFitsColumn ==
    last_call.op = "generate_conversation_title"
    => /\ last_call.result # <<>>
       /\ Len(last_call.result) <= TitleColumn
       /\ Len(last_call.reply) > TitleColumn /\ last_call.reply # ModelRaises
            => /\ Len(last_call.result) = TitleColumn
               /\ endswith(last_call.result, Ellipsis)
       /\ last_call.reply = ModelRaises
            => last_call.result =
                    IF split(last_call.user_message) = <<>> THEN NewConversation
                    ELSE FirstWords(last_call.user_message)

\* the lookup of line 291 or the insert of line 298 raised: the handler runs with
\* no conversation id assigned
ResolutionFailed(r) ==
    /\ req[r].pc \in {"except", "error", "finally"}
    /\ req[r].e # ""
    /\ req[r].conversation_id = NoId

\* C27: when the lookup or the creation of the conversation raises, the request
\* has written no message row (neither a user nor an assistant message: no step
\* of a request without a conversation id changes the ledger), the feed was never
\* opened, and the only event of the request is the error event it ends with.
C27_ResolutionFailureWritesNothing ==
    /\ [](\A r \in Requests :
            ResolutionFailed(r)
                => /\ req[r].user_message_id = NoId
                   /\ req[r].assistant_message_id = NoId
                   /\ ~FeedOpened(r)
                   /\ req[r].feed = <<>>
                   /\ req[r].events = <<>> \/ Finished(r)
                   /\ Finished(r) => /\ Len(req[r].events) = 1
                                      /\ LastEvent(r).type = "error"
                                      /\ LastEvent(r).message = req[r].e)
    /\ [][\A r \in Requests :
            /\ req[r].pc # "closed"
            /\ req'[r].pc \notin {"idle", "closed"}
            /\ req[r].conversation_id = NoId
            /\ req'[r].conversation_id = NoId
            => messages' = messages]_vars

\* C27 witness: with rows of an earlier request in the ledger, the insert of the
\* conversation raised and the request ended with the error event alone
C27_Witness ==
    \E r \in Requests :
        /\ Finished(r)
        /\ ResolutionFailed(r)
        /\ req[r].is_new_conversation
        /\ req[r].e = "store"
        /\ messages # <<>>
        /\ Len(req[r].events) = 1
        /\ LastEvent(r).type = "error"

\* the loop of line 324 is between two events, or has ended
BetweenEvents(r) == req[r].pc \in {"stream", "finalize"}

\* C28: whenever a request is between two feed events or at the end of the feed,
\* it holds the id of an assistant row exactly if its accumulated text is not
\* empty; so the finalization inserts no row in any run.
C28_PendingIdIffText ==
    /\ [](\A r \in Requests :
            BetweenEvents(r)
                => (req[r].assistant_message_id = NoId <=> req[r].assistant_content = <<>>))
    /\ [][\A r \in Requests :
            req[r].pc = "finalize" => Len(messages') = Len(messages)]_vars

\* C28 witness: the feed gave a whitespace token, which left the request without
\* text and without a row, then a token with text, and ended
C28_Witness ==
    \E r \in Requests :
        /\ req[r].pc = "finalize"
        /\ Len(req[r].feed) = 2
        /\ req[r].feed[1].mode = "messages"
        /\ req[r].feed[1].data.content = <<" ">>
        /\ req[r].assistant_message_id # NoId
        /\ req[r].assistant_content = <<"a">>
        /\ AssistantRow(r).status = "pending"

\* the contents of the text events the client has received, one after the other
TextSeen(r) ==
    LET texts == SelectSeq(req[r].events, LAMBDA ce : ce.type = "text")
    IN Concat([i \in DOMAIN texts |-> texts[i].content])

\* the content of the assistant row of the request; no text while it has no row
Persisted(r) ==
    IF req[r].assistant_message_id # NoId THEN AssistantRow(r).content ELSE <<>>

\* C29: at every point of a request, and so at its done event, the contents of
\* the text events emitted so far, put together, are the content of the assistant
\* message in the ledger.
C29_ClientSeesPersisted ==
    \A r \in Requests : TextSeen(r) = Persisted(r)

\* the step is the failure recorder of request r, and its update returned
RecordedFailure(r) ==
    /\ req[r].pc = "except"
    /\ req'[r].pc = "error"
    /\ req[r].assistant_message_id # NoId
    /\ faults' = faults

\* C30: when a request has emitted done, its assistant row, if it has one, is
\* completed with finish_reason stop. The failure recorder, when its update
\* returns, leaves the row in status error, and the step that emits the error
\* event writes nothing, so the row is in status error when the event is emitted.
\* A request that has emitted a terminal event has a pending assistant row only
\* if the event is an error event, and a row that is not in status error at the
\* error event only if a store operation has raised.
C30_TerminalAfterStatus ==
    /\ [](\A r \in Requests :
            Finished(r) /\ req[r].assistant_message_id # NoId
                => /\ LastEvent(r).type = "done"
                        => /\ AssistantRow(r).status = "completed"
                           /\ AssistantRow(r).finish_reason = "stop"
                   /\ AssistantRow(r).status = "pending" => LastEvent(r).type = "error"
                   /\ LastEvent(r).type = "error" /\ AssistantRow(r).status # "error"
                        => faults > 0)
    /\ [][\A r \in Requests :
            RecordedFailure(r)
                => /\ messages'[req[r].assistant_message_id].status = "error"
                   /\ messages'[req[r].assistant_message_id].finish_reason = "error"]_vars
    /\ [][\A r \in Requests : req[r].pc = "error" => messages' = messages]_vars

\* C30 witness: the feed raised after a token, the recording returned, and the
\* error event was emitted with the row in status error
C30_Witness ==
    \E r \in Requests :
        /\ Finished(r)
        /\ req[r].e = "engine"
        /\ LastEvent(r).type = "error"
        /\ req[r].assistant_message_id # NoId
        /\ AssistantRow(r).status = "error"
        /\ AssistantRow(r).message_metadata = [k \in {"error"} |-> "engine"]

\* the request runs on a conversation that an earlier request created
OnFoundConversation(r) ==
    /\ req[r].pc \in {"save_user", "stream", "finalize", "title", "generate", "done",
                      "except", "error", "finally"}
    /\ req[r].conversation_id # NoId
    /\ ~req[r].is_new_conversation

\* C31: only the request that created a conversation attempts to title it: no
\* step of a request on a conversation it found changes a title, so a conversation
\* whose first exchange left it without a title is still without one when a later
\* request on its thread has ended, whatever that request produced, and the done
\* event of that request reports "New Conversation".
C31_OnlyCreatorTitles ==
    /\ [][\A r \in Requests :
            OnFoundConversation(r)
                => /\ req'[r].pc # "generate"
                   /\ \A c \in DOMAIN conversations :
                        conversations'[c].title = conversations[c].title]_vars
    /\ [](\A r \in Requests :
            /\ OnFoundConversation(r)
            /\ Finished(r)
            /\ LastEvent(r).type = "done"
            /\ conversations[req[r].conversation_id].title = None
            => LastEvent(r).title = NewConversation)

\* C31 witness: the first exchange of the thread left no title, and a later request
\* on the thread has completed with content and reported "New Conversation"
C31_Witness ==
    \E r \in Requests :
        /\ OnFoundConversation(r)
        /\ Finished(r)
        /\ req[r].assistant_content # <<>>
        /\ req[r].assistant_message_id # NoId
        /\ AssistantRow(r).status = "completed"
        /\ conversations[req[r].conversation_id].title = None
        /\ LastEvent(r) = [type |-> "done",
                           thread_id |-> conversations[req[r].conversation_id].thread_id,
                           title |-> NewConversation]

\* the request has written its user row and has not been closed
Writing(r) == req[r].user_message_id # NoId

\* the assistant rows whose parent is the user row of the request
Answers(r) ==
    {m \in DOMAIN messages :
        messages[m].role = "assistant" /\ messages[m].parent_message_id = req[r].user_message_id}

\* C32: of two requests that run at the same time on one existing thread, each has
\* a user row of its own and at most one assistant row, whose parent is its own
\* user row and whose content is the deltas of its own feed put together; a step
\* changes a row only if it is a step of the request that holds the row as its
\* assistant row, and a row a step inserts belongs to the request that took it.
C32_OverlappingWritesApart ==
    /\ [](\A r \in Requests :
            Writing(r)
                => /\ messages[req[r].user_message_id] = UserRow(r)
                   /\ Answers(r) = {req[r].assistant_message_id} \ {NoId}
                   /\ req[r].assistant_message_id # NoId
                        => /\ AssistantRow(r).conversation_id = req[r].conversation_id
                           /\ AssistantRow(r).content = Concat(req[r].deltas)
                   /\ \A q \in Requests \ {r} :
                        /\ req[q].user_message_id # req[r].user_message_id
                        /\ req[q].assistant_message_id # req[r].user_message_id
                        /\ req[r].assistant_message_id # NoId
                            => req[q].assistant_message_id # req[r].assistant_message_id)
    /\ [][\A m \in DOMAIN messages :
            messages'[m] # messages[m]
                => \E r \in Requests :
                        /\ req'[r] # req[r]
                        /\ req[r].assistant_message_id = m]_vars
    /\ [][Len(messages') > Len(messages)
            => \E r \in Requests :
                    /\ req'[r] # req[r]
                    /\ Len(messages') \in {req'[r].user_message_id,
                                            req'[r].assistant_message_id}]_vars

\* C32 witness: the two requests wrote their rows in turns (user, user, assistant,
\* assistant), one has been completed and the other recorded a failure of its feed
C32_Witness ==
    \E r, q \in Requests :
        /\ r # q
        /\ req[r].user_message_id = Len(messages) - 3
        /\ req[q].user_message_id = Len(messages) - 2
        /\ req[q].assistant_message_id = Len(messages) - 1
        /\ req[r].assistant_message_id = Len(messages)
        /\ AssistantRow(r).status = "completed"
        /\ AssistantRow(q).status = "error"
        /\ AssistantRow(r).parent_message_id = req[r].user_message_id
        /\ AssistantRow(q).parent_message_id = req[q].user_message_id

\* the rows of the blacklist that hold the token
Entries(token) == {i \in DOMAIN blacklisted_tokens : blacklisted_tokens[i].token = token}

\* the token carries the signature of the service and its exp has not passed
Unexpired(token) == token.signed /\ token.exp > now

\* the step is a call of the service method op: the clock stands still and the
\* call is on record
Calls(op) == last_call'.op = op /\ now' = now

\* the call that the step made turned the token down
Rejected ==
    \/ Calls("verify_token") /\ DOMAIN last_call'.result = {}
    \/ Calls("get_current_user") /\ last_call'.result = credential_exception

\* C33: a logout with a valid token that returns leaves exactly one blacklist
\* entry for the token; entries are never removed or changed; every verify_token
\* and get_current_user call with a token that has an entry is rejected; a logout
\* with a token that has an entry, or with a token that is not valid, returns
\* without an error and leaves the blacklist as it is.
C33_LogoutIsFinal ==
    /\ [](\A token \in Tokens : Cardinality(Entries(token)) <= 1)
    /\ [][\A i \in DOMAIN blacklisted_tokens :
            /\ i \in DOMAIN blacklisted_tokens'
            /\ blacklisted_tokens'[i] = blacklisted_tokens[i]]_vars
    /\ [][(Calls("verify_token") \/ Calls("get_current_user"))
            /\ Entries(last_call'.token) # {}
            => Rejected]_vars
    /\ [][Calls("logout_user")
            => LET token == last_call'.token
               IN IF Unexpired(token) /\ Entries(token) = {}
                  THEN \/ last_call'.raised /\ blacklisted_tokens' = blacklisted_tokens
                       \/ /\ ~last_call'.raised
                          /\ blacklisted_tokens' =
                                Append(blacklisted_tokens,
                                       [token |-> token, expires_at |-> token.exp])
                  ELSE /\ ~last_call'.raised
                       /\ blacklisted_tokens' = blacklisted_tokens]_vars

\* C33 witness: a token was logged out while valid and its user was registered,
\* and a later get_current_user call with it, before its exp, was turned down
C33_Witness ==
    /\ last_call.op = "get_current_user"
    /\ last_call.token.email \in RegisteredEmails
    /\ Unexpired(last_call.token)
    /\ Entries(last_call.token) # {}
    /\ last_call.result = credential_exception
    /\ Len(blacklisted_tokens) = 2

=============================================================================
